---- MODULE Spec2Model ----
(***************************************************************************)
(* A model of gouda's barcode decoding script                              *)
(* (src/gouda/scripts/decode_barcodes.py).                                 *)
(*                                                                         *)
(* Spec        decode(): the traversal driver, the strategy chain and the  *)
(*             fan-out to the visitors (sinks).  The visitors are the      *)
(*             parameter of decode(): each one records the call it gets    *)
(*             and may raise.                                              *)
(* SpecRename  RenameVisitor: any sequence of result() calls, each for a   *)
(*             file that is on disk, with the barcodes that belong to the  *)
(*             file's content; the disk and the suffix counters are the    *)
(*             state.                                                      *)
(* SpecNaming  lines 146-148 and 156 of RenameVisitor.result on their own: *)
(*             decoding and sanitizing one payload and naming the          *)
(*             candidate destination for one source path.                  *)
(*                                                                         *)
(* and of the region decoder (src/gouda/strategies/roi/decode.py).         *)
(*                                                                         *)
(* SpecDecoder  Decoder: any number of iterations of one Decoder, for any  *)
(*              engine.                                                    *)
(* SpecContrast the contrast remap of lines 52-56 for every pixel value.   *)
(***************************************************************************)
EXTENDS Integers, Sequences, FiniteSets, TLC

VARIABLES
    \* ---- decode() ----
    kind,           \* the directory tree: path -> "file" | "dir"
    strategies,     \* the number of strategies in the list (strategy i = its index)
    visitors,       \* the number of visitors in the list (visitor k = its index)
    stack,          \* the call stack of decode(): per frame, the rest of sorted(paths)
    pc,             \* "run" | "done" (decode returned) | "raised" (an exception left decode)
    visited,        \* history: the files whose processing has been started, in order
    firstError,     \* history: the first file whose processing raised, and in which call
    events,         \* history: the calls made while the last file was processed
    \* ---- RenameVisitor ----
    avoid_collisions, \* self.avoid_collisions
    suffix,         \* self.suffix: file name -> the next integer its counter yields
    fs,             \* the files on disk: path -> content
    decoded,        \* the barcodes that decode() finds in a file: content -> payloads
    calls,          \* the number of result() calls made
    last,           \* history: the last result() call and the state before it
    run,            \* history: the current run of single-barcode calls with one value
    draws,          \* history: file name -> the integers drawn from its counter, in order
    \* ---- naming a destination ----
    named,          \* a source path, a payload and the destination computed for them
    \* ---- Decoder (region decoder) ----
    self_candidates, \* self._candidates: the number of candidate rectangles
    self_engine,    \* self._engine: (rectangle, attempt) -> number of symbols found
    self_barcodes,  \* self._barcodes: None, or the list computed
    engine_calls,   \* history: the engine calls made, in order
    iterated,       \* history: per iteration, the list returned and the engine calls made
    \* ---- contrast remap ----
    contrast        \* a pixel of the crop and the arrays computed from it

decodeVars == <<kind, strategies, visitors, stack, pc, visited, firstError, events>>

renameVars == <<avoid_collisions, suffix, fs, decoded, calls, last, run, draws>>

decoderVars == <<self_candidates, self_engine, self_barcodes, engine_calls, iterated>>

vars == <<decodeVars, renameVars, named, decoderVars, contrast>>

----------------------------------------------------------------------------
(* Bounds *)

MaxNodes == 3          \* files and directories in the tree
MaxStrategies == 2     \* length of the strategies list
MaxVisitors == 2       \* length of the visitors list
MaxFiles == 2          \* files on disk when the RenameVisitor is constructed
MaxBarcodes == 2       \* barcodes in one outcome
MaxCalls == 3          \* result() calls on one RenameVisitor
MaxPayloadLen == 2     \* bytes of a payload whose destination is named
MaxCandidates == 2     \* candidate rectangles of a Decoder
MaxSymbols == 2        \* symbols the engine finds in one crop
MaxIterations == 3     \* iterations of one Decoder

----------------------------------------------------------------------------
(* Python values that decode() tests: None, and lists.  A list carries its  *)
(* items; the outcome [strategy, barcodes] is a list of two items.          *)

PyNone == [isNone |-> TRUE, items |-> <<>>]

PyList(xs) == [isNone |-> FALSE, items |-> xs]

\* bool(x) as Python computes it: None and an empty list are false, a list
\* with items is true whatever the items are.
Truthy(x) == ~x.isNone /\ Len(x.items) > 0

\* The literal [None, []] of lines 40 and 50.
EmptyOutcome == PyList(<<"None", <<>>>>)

\* What read_image may return: None, or an image.
Image == PyList(<<"img">>)

\* What strategy i may return: None, or an outcome that names the strategy,
\* with or without barcodes.
StrategyReturns(i) ==
    { PyNone, PyList(<<i, <<>>>>), PyList(<<i, <<1>>>>) }

\* A call's behaviour: it raises, or it returns val.
Behaviours(vals) == [raised : {FALSE}, val : vals] \cup [raised : {TRUE}, val : {PyNone}]

Event(k, i, p, b) == [kind |-> k, idx |-> i, path |-> p, raised |-> b.raised, val |-> b.val]

----------------------------------------------------------------------------
(* Paths.  A path is the sequence of its parts; pathlib orders paths by     *)
(* comparing the parts left to right.                                       *)

Names == {1, 2}

PathUniverse == UNION { [1..d -> Names] : d \in {1, 2, 3} }

Parent(p) == SubSeq(p, 1, Len(p) - 1)

RECURSIVE PathLess(_, _)
PathLess(p, q) ==
    IF p = <<>> THEN q # <<>>
    ELSE IF q = <<>> THEN FALSE
    ELSE IF Head(p) = Head(q) THEN PathLess(Tail(p), Tail(q))
    ELSE Head(p) < Head(q)

\* A variant of Sorted that leaves the paths in the order of the listing
\* (here: descending), as if line 29 iterated over paths itself.
RECURSIVE Unsorted(_)
Unsorted(S) ==
    IF S = {} THEN <<>>
    ELSE LET m == CHOOSE x \in S : \A y \in S \ {x} : PathLess(y, x)
         IN  <<m>> \o Unsorted(S \ {m})

\* sorted(paths): the paths of S in ascending order.
RECURSIVE Sorted(_)
Sorted(S) ==
    IF S = {} THEN <<>>
    ELSE LET m == CHOOSE x \in S : \A y \in S \ {x} : PathLess(x, y)
         IN  <<m>> \o Sorted(S \ {m})

\* p.iterdir(): the immediate children of p.
IterDir(p) == { q \in DOMAIN kind : Len(q) = Len(p) + 1 /\ Parent(q) = p }

\* The paths given to decode(): the top-level entries.
TopLevel == { q \in DOMAIN kind : Len(q) = 1 }

IsDir(p) == kind[p] = "dir"

----------------------------------------------------------------------------
(* decode(), lines 26-56 *)

\* A variant of StrategyLoop without the break of line 47: every strategy
\* is called and a later true value replaces an earlier one.
RECURSIVE StrategyLoopNoBreak(_, _, _)
StrategyLoopNoBreak(i, p, beh) ==
    IF i > strategies
    THEN [ev |-> <<>>, raised |-> FALSE, result |-> EmptyOutcome]
    ELSE LET e == Event("strategy", i, p, beh[i])
         IN  IF beh[i].raised
             THEN [ev |-> <<e>>, raised |-> TRUE, result |-> PyNone]
             ELSE LET r == StrategyLoopNoBreak(i + 1, p, beh)
                  IN  [r EXCEPT !.ev = <<e>> \o @,
                                !.result = IF ~r.raised /\ r.result = EmptyOutcome /\ Truthy(beh[i].val)
                                           THEN beh[i].val ELSE @]

\* A variant of StrategyLoop without the else clause of lines 48-50: after
\* the loop, result is what the last strategy returned.
RECURSIVE StrategyLoopNoElse(_, _, _)
StrategyLoopNoElse(i, p, beh) ==
    IF i > strategies
    THEN [ev |-> <<>>, raised |-> strategies = 0,
          result |-> IF strategies = 0 THEN PyNone ELSE beh[strategies].val]
    ELSE LET e == Event("strategy", i, p, beh[i])
         IN  IF beh[i].raised
             THEN [ev |-> <<e>>, raised |-> TRUE, result |-> PyNone]
             ELSE IF Truthy(beh[i].val)
             THEN [ev |-> <<e>>, raised |-> FALSE, result |-> beh[i].val]
             ELSE LET r == StrategyLoopNoElse(i + 1, p, beh)
                  IN  [r EXCEPT !.ev = <<e>> \o @]

\* The strategy loop of lines 43-50, from strategy i on, given each
\* strategy's behaviour: the calls made, whether one raised, and result.
RECURSIVE StrategyLoop(_, _, _)
StrategyLoop(i, p, beh) ==
    IF i > strategies
    THEN [ev |-> <<>>, raised |-> FALSE, result |-> EmptyOutcome]
    ELSE LET e == Event("strategy", i, p, beh[i])
         IN  IF beh[i].raised
             THEN [ev |-> <<e>>, raised |-> TRUE, result |-> PyNone]
             ELSE IF Truthy(beh[i].val)
             THEN [ev |-> <<e>>, raised |-> FALSE, result |-> beh[i].val]
             ELSE LET r == StrategyLoop(i + 1, p, beh)
                  IN  [r EXCEPT !.ev = <<e>> \o @]

\* A variant of VisitorLoop that calls the first visitor only.
VisitorLoopFirstOnly(k, p, result, raiseAt) ==
    IF k > visitors THEN <<>>
    ELSE << Event("visitor", k, p, [raised |-> k = raiseAt, val |-> result]) >>

\* A variant of VisitorLoop that goes on with the next visitor after one
\* that raises.
RECURSIVE VisitorLoopContinuing(_, _, _, _)
VisitorLoopContinuing(k, p, result, raiseAt) ==
    IF k > visitors THEN <<>>
    ELSE << Event("visitor", k, p, [raised |-> k = raiseAt, val |-> result]) >>
         \o VisitorLoopContinuing(k + 1, p, result, raiseAt)

\* The visitor loop of lines 39-40 and 52-53, from visitor k on: visitor
\* raiseAt raises (0: none does).
RECURSIVE VisitorLoop(_, _, _, _)
VisitorLoop(k, p, result, raiseAt) ==
    IF k > visitors THEN <<>>
    ELSE IF k = raiseAt
    THEN << Event("visitor", k, p, [raised |-> TRUE, val |-> result]) >>
    ELSE << Event("visitor", k, p, [raised |-> FALSE, val |-> result]) >>
         \o VisitorLoop(k + 1, p, result, raiseAt)

NoError == [path |-> <<>>, by |-> "none"]

\* The call of ev that raised, "none" if none did.
RaisedBy(ev) ==
    IF \E n \in 1..Len(ev) : ev[n].raised
    THEN ev[CHOOSE n \in 1..Len(ev) : ev[n].raised].kind
    ELSE "none"

Record(p, ev) ==
    /\ events' = ev
    /\ visited' = Append(visited, p)
    /\ firstError' = IF firstError = NoError /\ RaisedBy(ev) # "none"
                     THEN [path |-> p, by |-> RaisedBy(ev)]
                     ELSE firstError

\* A variant of AfterFile without the try of line 35: an exception leaves
\* decode().
AfterFileNoTry(p, ev) ==
    /\ Record(p, ev)
    /\ IF RaisedBy(ev) # "none"
       THEN stack' = <<>> /\ pc' = "raised"
       ELSE stack' = <<Tail(Head(stack))>> \o Tail(stack) /\ pc' = "run"

\* The end of the try statement of lines 35-56 for file p, after the calls
\* ev: an exception is caught by the except clause of lines 54-56, which
\* prints it, and in either case the loop of line 29 goes on.
AfterFile(p, ev) ==
    /\ Record(p, ev)
    /\ stack' = <<Tail(Head(stack))>> \o Tail(stack)
    /\ pc' = "run"

\* Line 33: the next path of the loop is not a directory.
AtFile ==
    /\ pc = "run"
    /\ Head(stack) # <<>>
    /\ ~IsDir(Head(Head(stack)))

\* Line 36 raises.
ReadRaises ==
    /\ AtFile
    /\ LET p == Head(Head(stack))
       IN  AfterFile(p, << Event("read", 0, p, [raised |-> TRUE, val |-> PyNone]) >>)
    /\ UNCHANGED <<kind, strategies, visitors>>

\* Lines 36-40: read_image returns None.
NotAnImage ==
    /\ AtFile
    /\ \E raiseAt \in 0..visitors :
        LET p == Head(Head(stack))
            rd == Event("read", 0, p, [raised |-> FALSE, val |-> PyNone])
            vs == VisitorLoop(1, p, EmptyOutcome, raiseAt)
        IN  AfterFile(p, <<rd>> \o vs)
    /\ UNCHANGED <<kind, strategies, visitors>>

\* A strategy's behaviour is observed only if the strategy is called: one
\* that follows a strategy that raises or returns a true value is given
\* the behaviour "returns None".
NotReachedIsQuiet(beh) ==
    \A i, j \in 1..strategies :
        (i < j /\ (beh[i].raised \/ Truthy(beh[i].val)))
            => beh[j] = [raised |-> FALSE, val |-> PyNone]

\* Lines 36, 41-53: read_image returns an image.
ReadBarcodes ==
    /\ AtFile
    /\ \E beh \in [1..strategies -> UNION { Behaviours(StrategyReturns(i)) : i \in 1..strategies }] :
        /\ \A i \in 1..strategies : beh[i] \in Behaviours(StrategyReturns(i))
        /\ NotReachedIsQuiet(beh)
        /\ LET p == Head(Head(stack))
               rd == Event("read", 0, p, [raised |-> FALSE, val |-> Image])
               sl == StrategyLoop(1, p, beh)
           IN  \E raiseAt \in (IF sl.raised THEN {0} ELSE 0..visitors) :
                 LET vs == IF sl.raised THEN <<>> ELSE VisitorLoop(1, p, sl.result, raiseAt)
                 IN  AfterFile(p, <<rd>> \o sl.ev \o vs)
    /\ UNCHANGED <<kind, strategies, visitors>>

\* Lines 30-32: p is a directory and its listing succeeds; the recursive
\* call starts on sorted(p.iterdir()).
Descend ==
    /\ pc = "run"
    /\ Head(stack) # <<>>
    /\ LET p == Head(Head(stack))
       IN  /\ IsDir(p)
           /\ stack' = <<Sorted(IterDir(p)), Tail(Head(stack))>> \o Tail(stack)
    /\ UNCHANGED <<kind, strategies, visitors, pc, visited, firstError, events>>

\* Lines 30-32, 29: listing the directory raises (for example
\* PermissionError).  Neither line is inside the try of line 35, so the
\* exception leaves every active call of decode().
DescendRaises ==
    /\ pc = "run"
    /\ Head(stack) # <<>>
    /\ IsDir(Head(Head(stack)))
    /\ stack' = <<>>
    /\ pc' = "raised"
    /\ UNCHANGED <<kind, strategies, visitors, visited, firstError, events>>

\* Line 29: the loop of a recursive call is exhausted; the call returns.
Return ==
    /\ pc = "run"
    /\ Head(stack) = <<>>
    /\ Len(stack) > 1
    /\ stack' = Tail(stack)
    /\ UNCHANGED <<kind, strategies, visitors, pc, visited, firstError, events>>

\* Line 29: the loop of the outermost call is exhausted; decode() returns.
Finish ==
    /\ pc = "run"
    /\ stack = << <<>> >>
    /\ stack' = <<>>
    /\ pc' = "done"
    /\ UNCHANGED <<kind, strategies, visitors, visited, firstError, events>>

\* Directory trees: a set of paths closed under Parent, whose inner nodes
\* are directories and whose leaves are files or (empty) directories.
Trees ==
    { k \in UNION { [T -> {"file", "dir"}] :
                      T \in { S \in SUBSET PathUniverse :
                                /\ Cardinality(S) \in 1..MaxNodes
                                /\ \A q \in S : Len(q) > 1 => Parent(q) \in S } } :
        \A q \in DOMAIN k : (\E c \in DOMAIN k : Len(c) > 1 /\ Parent(c) = q) => k[q] = "dir" }

----------------------------------------------------------------------------
(* Text.  A string is the sequence of its code points, a bytes object the   *)
(* sequence of its bytes.                                                   *)

Dot == 46           \* '.'
Dash == 45          \* '-'
Underscore == 95    \* '_'
DigitZero == 48     \* '0'

\* bytes.decode(): UTF-8, here for code points of one or two bytes.  A
\* byte sequence that is not valid UTF-8 raises UnicodeDecodeError (ok is
\* FALSE).
RECURSIVE Utf8Decode(_)
Utf8Decode(b) ==
    IF b = <<>> THEN [ok |-> TRUE, text |-> <<>>]
    ELSE IF b[1] < 128
    THEN LET r == Utf8Decode(Tail(b))
         IN  [ok |-> r.ok, text |-> <<b[1]>> \o r.text]
    ELSE IF b[1] \in 194..223 /\ Len(b) >= 2 /\ b[2] \in 128..191
    THEN LET r == Utf8Decode(SubSeq(b, 3, Len(b)))
         IN  [ok |-> r.ok, text |-> <<(b[1] - 192) * 64 + (b[2] - 128)>> \o r.text]
    ELSE [ok |-> FALSE, text |-> <<>>]

\* The character class [a-zA-Z0-9_-] of line 147.
IsSafeChar(c) ==
    \/ c \in 97..122
    \/ c \in 65..90
    \/ c \in 48..57
    \/ c = Underscore
    \/ c = Dash

\* A variant of Sanitize that removes the characters outside the class.
SanitizeRemoving(text) == SelectSeq(text, IsSafeChar)

\* re.sub('[^a-zA-Z0-9_-]', '_', text), line 147.
Sanitize(text) ==
    [i \in 1..Len(text) |-> IF IsSafeChar(text[i]) THEN text[i] ELSE Underscore]

\* str(n) for n >= 0, as format() writes an integer.
RECURSIVE Digits(_)
Digits(n) ==
    IF n < 10 THEN <<DigitZero + n>>
    ELSE Digits(n \div 10) \o <<DigitZero + (n % 10)>>

----------------------------------------------------------------------------
(* File names and paths.  A file's path is <<directory, name>>.             *)

\* The index of the last '.' of name, 0 if it has none (str.rfind).
LastDot(name) ==
    IF \E i \in 1..Len(name) : name[i] = Dot
    THEN CHOOSE i \in 1..Len(name) :
            name[i] = Dot /\ \A j \in (i + 1)..Len(name) : name[j] # Dot
    ELSE 0

\* pathlib's suffix of a name: from the last '.', unless that is the first
\* or the last character.
NameSuffix(name) ==
    LET i == LastDot(name)
    IN  IF 1 < i /\ i < Len(name) THEN SubSeq(name, i, Len(name)) ELSE <<>>

\* pathlib's stem of a name: the name without its suffix.
NameStem(name) ==
    LET i == LastDot(name)
    IN  IF 1 < i /\ i < Len(name) THEN SubSeq(name, 1, i - 1) ELSE name

\* path.with_name(name): the path of name in path's directory.  pathlib
\* raises ValueError for an empty name.
WithName(path, name) == <<path[1], name>>

WithNameRaises(name) == name = <<>>

\* A variant of FormatName that appends the number after the extension.
FormatNameAfterExtension(stem, n, ext) == stem \o ext \o <<Dash>> \o Digits(n)

\* '{0}-{1}{2}'.format(path.stem, n, path.suffix), lines 130-134.
FormatName(stem, n, ext) == stem \o <<Dash>> \o Digits(n) \o ext

\* '{0}{1}'.format(value, path.suffix), line 156.
CandidateName(value, path) == value \o NameSuffix(path[2])

IsFile(path, files) == path \in DOMAIN files

\* A variant of PathRename that leaves the file at its old path too.
PathRenameKeeping(files, src, dst) ==
    [p \in DOMAIN files \cup {dst} |-> IF p = dst THEN files[src] ELSE files[p]]

\* path.rename(dst), line 166: the file is at dst afterwards (replacing
\* what was there) and no longer at src.
PathRename(files, src, dst) ==
    [p \in (DOMAIN files \ {src}) \cup {dst} |-> IF p = dst THEN files[src] ELSE files[p]]

\* shutil.copy2(src, dst), line 169: dst holds src's content afterwards
\* (replacing what was there).
Copy2(files, src, dst) ==
    [p \in DOMAIN files \cup {dst} |-> IF p = dst THEN files[src] ELSE files[p]]

----------------------------------------------------------------------------
(* RenameVisitor, lines 113-172 *)

\* count(start=1) of line 120.
CountStart == 1

NoSuffix == [name \in {} |-> CountStart]

NoPath == <<>>

\* A variant of NextSuffix whose counter steps by two.
NextSuffixSkipping(sfx, name) ==
    LET n == IF name \in DOMAIN sfx THEN sfx[name] ELSE CountStart
    IN  [n |-> n,
         suffix |-> [k \in DOMAIN sfx \cup {name} |-> IF k = name THEN n + 2 ELSE sfx[k]]]

\* next(self.suffix[name]): the integer drawn and the mapping afterwards.
NextSuffix(sfx, name) ==
    LET n == IF name \in DOMAIN sfx THEN sfx[name] ELSE CountStart
    IN  [n |-> n,
         suffix |-> [k \in DOMAIN sfx \cup {name} |-> IF k = name THEN n + 1 ELSE sfx[k]]]

\* The while loop of lines 129-135: the destination, self.suffix
\* afterwards, and the integers drawn, in order.
RECURSIVE DestinationLoop(_, _, _, _)
DestinationLoop(path, destination, files, sfx) ==
    IF IsFile(destination, files)
    THEN LET nx == NextSuffix(sfx, path[2])
             fname == FormatName(NameStem(path[2]), nx.n, NameSuffix(path[2]))
             r == DestinationLoop(path, WithName(path, fname), files, nx.suffix)
         IN  [r EXCEPT !.drawn = <<nx.n>> \o @]
    ELSE [dest |-> destination, suffix |-> sfx, drawn |-> <<>>]

\* self._destination(path), lines 122-137.
Destination(path, files, sfx) ==
    IF avoid_collisions
    THEN DestinationLoop(path, path, files, sfx)
    ELSE [dest |-> path, suffix |-> sfx, drawn |-> <<>>]

\* A variant of Operation without the test of line 162.
OperationForced(source, dest, files, rename) ==
    IF source = dest THEN "already"
    ELSE IF rename THEN "rename"
    ELSE "copy"

\* The branch of lines 160-170 that is taken.
Operation(source, dest, files, rename) ==
    IF source = dest THEN "already"
    ELSE IF IsFile(dest, files) THEN "exists"
    ELSE IF rename THEN "rename"
    ELSE "copy"

\* The loop of lines 155-172 from the i-th value on.  st holds the files,
\* self.suffix, first_destination, the operations so far and whether an
\* exception was raised.
RECURSIVE ResultLoop(_, _, _, _)
ResultLoop(path, values, i, st) ==
    IF i > Len(values) THEN st
    ELSE LET name == CandidateName(values[i], path)
         IN  IF WithNameRaises(name)
             THEN [st EXCEPT !.raised = TRUE]
             ELSE
             LET cand == WithName(path, name)
                 d == Destination(cand, st.files, st.suffix)
                 source == IF st.first # NoPath THEN st.first ELSE path
                 rename == st.first = NoPath
                 op == Operation(source, d.dest, st.files, rename)
                 files2 == CASE op = "rename" -> PathRename(st.files, path, d.dest)
                             [] op = "copy" -> Copy2(st.files, source, d.dest)
                             [] OTHER -> st.files
                 rec == [value |-> values[i], candidate |-> cand, dest |-> d.dest,
                         source |-> source, op |-> op, files |-> files2,
                         drawn |-> d.drawn]
             IN  ResultLoop(path, values, i + 1,
                            [files |-> files2,
                             suffix |-> d.suffix,
                             first |-> IF st.first = NoPath THEN d.dest ELSE st.first,
                             ops |-> Append(st.ops, rec),
                             raised |-> FALSE])

\* b.data.decode() for every barcode, line 147.
Decoded(barcodes) == [i \in 1..Len(barcodes) |-> Utf8Decode(barcodes[i])]

\* The values of lines 146-148.
Values(barcodes) == [i \in 1..Len(barcodes) |-> Sanitize(Decoded(barcodes)[i].text)]

\* A variant of ResultState that removes a file without barcodes.
ResultStateRemoving(path, barcodes) ==
    LET st0 == [files |-> fs, suffix |-> suffix, first |-> NoPath, ops |-> <<>>,
                raised |-> FALSE]
    IN  IF barcodes = <<>>
        THEN [st0 EXCEPT !.files = [q \in DOMAIN fs \ {path} |-> fs[q]]]
        ELSE ResultLoop(path, Values(barcodes), 1, st0)

\* RenameVisitor.result(path, [strategy, barcodes]), lines 139-172: the
\* state it leaves.  An undecodable payload raises in line 147, before the
\* loop.
ResultState(path, barcodes) ==
    LET st0 == [files |-> fs, suffix |-> suffix, first |-> NoPath, ops |-> <<>>,
                raised |-> FALSE]
    IN  IF barcodes = <<>> THEN st0
        ELSE IF \E i \in 1..Len(barcodes) : ~Decoded(barcodes)[i].ok
        THEN [st0 EXCEPT !.raised = TRUE]
        ELSE ResultLoop(path, Values(barcodes), 1, st0)

NoCall == [path |-> NoPath, n |-> 0, values |-> <<>>, ops |-> <<>>, raised |-> FALSE,
           files |-> <<>>, suffix |-> NoSuffix]

NoRun == [value |-> <<>>, dir |-> 0, ext |-> <<>>, clean |-> FALSE, fresh |-> FALSE,
          dests |-> <<>>, ids |-> {}]

\* name is value<ext> or value-<n><ext> for a decimal number n.
IsNumbered(name, value, ext) ==
    \/ name = value \o ext
    \/ /\ Len(name) >= Len(value) + Len(ext) + 2
       /\ SubSeq(name, 1, Len(value)) = value
       /\ SubSeq(name, Len(name) - Len(ext) + 1, Len(name)) = ext
       /\ name[Len(value) + 1] = Dash
       /\ \A k \in (Len(value) + 2)..(Len(name) - Len(ext)) : name[k] \in 48..57

\* The run of consecutive calls, each for another file of one directory
\* with one extension and with the same single value, that the call
\* result(path, barcodes) continues or starts.
NextRun(path, barcodes, st) ==
    IF Len(barcodes) # 1 \/ st.raised \/ st.ops = <<>> THEN NoRun
    ELSE LET v == st.ops[1].value
             ext == NameSuffix(path[2])
         IN  IF /\ run # NoRun
                /\ run.value = v /\ run.dir = path[1] /\ run.ext = ext
                /\ fs[path] \notin run.ids
             THEN [run EXCEPT !.dests = Append(@, st.ops[1].dest[2]),
                              !.ids = @ \cup {fs[path]}]
             ELSE [value |-> v, dir |-> path[1], ext |-> ext,
                   clean |-> \A p \in DOMAIN fs : ~IsNumbered(p[2], v, ext),
                   fresh |-> (v \o ext) \notin DOMAIN suffix,
                   dests |-> <<st.ops[1].dest[2]>>,
                   ids |-> {fs[path]}]

\* The integers drawn so far, with those of the operations ops from the
\* i-th on; the counter is that of the name of the candidate.
RECURSIVE Drawn(_, _, _)
Drawn(d, ops, i) ==
    IF i > Len(ops) THEN d
    ELSE LET name == ops[i].candidate[2]
             before == IF name \in DOMAIN d THEN d[name] ELSE <<>>
         IN  Drawn([k \in DOMAIN d \cup {name} |->
                        IF k = name THEN before \o ops[i].drawn ELSE d[k]],
                   ops, i + 1)

\* One call visitor.result(path, [strategy, barcodes]) for a file on disk,
\* with the barcodes that are decoded from the file's content.
Result(path) ==
    /\ calls < MaxCalls
    /\ path \in DOMAIN fs
    /\ LET barcodes == decoded[fs[path]]
           st == ResultState(path, barcodes)
       IN  /\ fs' = st.files
           /\ suffix' = st.suffix
           /\ last' = [path |-> path,
                       n |-> IF st.ops = <<>> /\ st.raised THEN 0 ELSE Len(barcodes),
                       values |-> IF st.ops = <<>> /\ st.raised THEN <<>>
                                  ELSE Values(barcodes),
                       ops |-> st.ops, raised |-> st.raised,
                       files |-> fs, suffix |-> suffix]
           /\ run' = NextRun(path, barcodes, st)
           /\ draws' = Drawn(draws, st.ops, 1)
    /\ calls' = calls + 1
    /\ UNCHANGED <<avoid_collisions, decoded>>

\* Barcode payloads (bytes): "X" and "@"; a decoded symbol carries at least
\* one byte.
Payloads == { <<88>>, <<64>> }

BarcodeLists == UNION { [1..n -> Payloads] : n \in 0..MaxBarcodes }

\* The files that may be on disk at the start: a.j, b.j and X.j in
\* directory 1 and a.j in directory 2; a file's content is its number.
InitialPaths ==
    << <<1, <<97, 46, 106>>>>, <<1, <<98, 46, 106>>>>, <<1, <<88, 46, 106>>>>,
       <<2, <<97, 46, 106>>>> >>

InitialFileSystems ==
    { [p \in { InitialPaths[i] : i \in I } |->
          CHOOSE i \in I : InitialPaths[i] = p] :
      I \in { J \in SUBSET (1..Len(InitialPaths)) : Cardinality(J) \in 1..MaxFiles } }

----------------------------------------------------------------------------
(* Lines 146-148 and 156 on their own: the destination named for one       *)
(* payload and one source path.                                            *)

NoName == [path |-> NoPath, data |-> <<>>, ok |-> FALSE, text |-> <<>>, value |-> <<>>,
           name |-> <<>>, raised |-> FALSE, candidate |-> NoPath]

\* The payload "He@llo!".
HeAtLloBang == <<72, 101, 64, 108, 108, 111, 33>>

\* Payloads: the byte sequences over 'H', '@', '-', '_', '.', 0xC3 and 0xA9
\* (0xC3 0xA9 is one character in UTF-8), and "He@llo!".
NamedPayloads ==
    UNION { [1..n -> {72, 64, 45, 95, 46, 195, 169}] : n \in 0..MaxPayloadLen }
        \cup { HeAtLloBang }

\* Source paths: a.j and .h in directory 1, b.t.p and c in directory 2.
NamedPaths ==
    { <<1, <<97, 46, 106>>>>, <<1, <<46, 104>>>>,
      <<2, <<98, 46, 116, 46, 112>>>>, <<2, <<99>>>> }

Name(path, data) ==
    LET d == Utf8Decode(data)
        value == Sanitize(d.text)
        name == CandidateName(value, path)
    IN  named' = IF ~d.ok
                 THEN [NoName EXCEPT !.path = path, !.data = data]
                 ELSE [path |-> path, data |-> data, ok |-> TRUE, text |-> d.text,
                       value |-> value, name |-> name,
                       raised |-> WithNameRaises(name),
                       candidate |-> IF WithNameRaises(name) THEN NoPath
                                     ELSE WithName(path, name)]

----------------------------------------------------------------------------
(* The region decoder (src/gouda/strategies/roi/decode.py).  A candidate    *)
(* rectangle is its position in self._candidates; the engine is a function  *)
(* of the crop it is given: the sharpened crop of a rectangle (attempt 1)   *)
(* or the same crop after the contrast remap (attempt 2).                   *)

Sharpened == 1
Contrasted == 2
Attempts == {Sharpened, Contrasted}

\* The engines: how many symbols each crop yields.
Engines(n) == [(1..n) \X Attempts -> 0..MaxSymbols]

\* self._engine(crop): the symbols found in a crop, each with its type and
\* its data.
Engine(rect, attempt) ==
    [j \in 1..self_engine[<<rect, attempt>>] |->
        [type |-> "symbol", data |-> <<rect, attempt, j>>, from |-> "engine"]]

\* Barcode(b.type, b.data) of line 60.
Barcode(b) == [type |-> b.type, data |-> b.data]

BarcodesReversed(symbols) ==
    [j \in 1..Len(symbols) |-> Barcode(symbols[Len(symbols) + 1 - j])]

\* Lines 59-60: the barcodes appended for the symbols of one candidate.
Barcodes(symbols) ==
    [j \in 1..Len(symbols) |-> Barcode(symbols[j])]

CandidateDecodeBoth(rect) ==
    LET first == Engine(rect, Sharpened)
        second == Engine(rect, Contrasted)
    IN  [decoded |-> IF Len(first) = 0 THEN second ELSE first,
         calls |-> << <<rect, Sharpened>>, <<rect, Contrasted>> >>]

\* Lines 47-57 for one candidate: the symbols decoded and the engine calls
\* made.
CandidateDecode(rect) ==
    LET first == Engine(rect, Sharpened)
    IN  IF Len(first) = 0
        THEN [decoded |-> Engine(rect, Contrasted),
              calls |-> << <<rect, Sharpened>>, <<rect, Contrasted>> >>]
        ELSE [decoded |-> first, calls |-> << <<rect, Sharpened>> >>]

\* Lines 36-62: the loop over self._candidates from the candidate rect on.
RECURSIVE ComputeBarcodes(_, _, _)
ComputeBarcodes(rect, res, calls_made) ==
    IF rect > self_candidates
    THEN [res |-> res, calls |-> calls_made]
    ELSE LET c == CandidateDecode(rect)
         IN  ComputeBarcodes(rect + 1, res \o Barcodes(c.decoded),
                             calls_made \o c.calls)

NeedsComputeWhenFalsy(cached) == ~Truthy(cached)

\* Line 25: self._barcodes is None.
NeedsCompute(cached) == cached.isNone

\* One iteration of the Decoder: Decoder.__iter__ and the list it iterates.
Iter ==
    /\ Len(iterated) < MaxIterations
    /\ LET c == IF NeedsCompute(self_barcodes)
                THEN ComputeBarcodes(1, <<>>, <<>>)
                ELSE [res |-> self_barcodes.items, calls |-> <<>>]
       IN  /\ self_barcodes' = PyList(c.res)
           /\ engine_calls' = engine_calls \o c.calls
           /\ iterated' = Append(iterated, c)
    /\ UNCHANGED <<self_candidates, self_engine>>

\* No Decoder.
IdleDecoder ==
    /\ self_candidates = 0
    /\ self_engine = <<>>
    /\ self_barcodes = PyNone
    /\ engine_calls = <<>>
    /\ iterated = <<>>

----------------------------------------------------------------------------
(* The contrast remap of lines 52-56, for one pixel of an 8-bit crop.       *)

Uint8Max == 255
ContrastThreshold == 128
BrightOffset == 16
DarkOffset == 90

Wrap(x) == x % (Uint8Max + 1)

\* OpenCV's saturate_cast<uchar>.
Saturate(x) == IF x > Uint8Max THEN Uint8Max ELSE IF x < 0 THEN 0 ELSE x

\* cv2.compare(crop, [0x80], cv2.CMP_GE): 255 where the test holds.
CompareGE(p, s) == IF p >= s THEN Uint8Max ELSE 0

\* cv2.bitwise_not.
BitwiseNot(m) == Uint8Max - m

\* cv2.add(src, scalar, mask=mask) into a new array: zero where the mask is.
AddMasked(p, s, mask) == IF mask # 0 THEN Saturate(p + s) ELSE 0

\* cv2.subtract(src, scalar, mask=mask) into a new array.
SubtractMasked(p, s, mask) == IF mask # 0 THEN Saturate(p - s) ELSE 0

\* cv2.add(src1, src2).
Add(a, b) == Saturate(a + b)

NoRemap == [crop |-> 0, bigmask |-> 0, smallmask |-> 0, big |-> 0, small |-> 0,
            out |-> 0, done |-> FALSE]

\* Lines 52-56.
Remap ==
    /\ ~contrast.done
    /\ LET crop == contrast.crop
           bigmask == CompareGE(crop, ContrastThreshold)
           smallmask == BitwiseNot(bigmask)
           big == AddMasked(crop, BrightOffset, bigmask)
           small == SubtractMasked(crop, DarkOffset, smallmask)
       IN  contrast' = [crop |-> crop, bigmask |-> bigmask, smallmask |-> smallmask,
                        big |-> big, small |-> small, out |-> Add(big, small),
                        done |-> TRUE]

IdleContrast == contrast = NoRemap

IdleRename ==
    /\ avoid_collisions = FALSE
    /\ suffix = NoSuffix
    /\ fs = <<>>
    /\ decoded = <<>>
    /\ calls = 0
    /\ last = NoCall
    /\ run = NoRun
    /\ draws = <<>>

IdleDecode ==
    /\ kind = <<>>
    /\ strategies = 0
    /\ visitors = 0
    /\ stack = <<>>
    /\ pc = "idle"
    /\ visited = <<>>
    /\ firstError = NoError
    /\ events = <<>>

InitRename ==
    /\ avoid_collisions \in BOOLEAN
    /\ suffix = NoSuffix
    /\ fs \in InitialFileSystems
    /\ decoded \in [{ fs[p] : p \in DOMAIN fs } -> BarcodeLists]
    /\ calls = 0
    /\ last = NoCall
    /\ run = NoRun
    /\ draws = <<>>
    /\ IdleDecode
    /\ named = NoName
    /\ IdleDecoder
    /\ IdleContrast

NextRename ==
    /\ \E path \in DOMAIN fs : Result(path)
    /\ UNCHANGED <<decodeVars, named, decoderVars, contrast>>

SpecRename == InitRename /\ [][NextRename]_vars

NextNaming ==
    /\ \E path \in NamedPaths, data \in NamedPayloads : Name(path, data)
    /\ UNCHANGED <<decodeVars, renameVars, decoderVars, contrast>>

InitNaming ==
    IdleRename /\ IdleDecode /\ named = NoName /\ IdleDecoder /\ IdleContrast

InitDecoder ==
    /\ self_candidates \in 0..MaxCandidates
    /\ self_engine \in Engines(self_candidates)
    /\ self_barcodes = PyNone
    /\ engine_calls = <<>>
    /\ iterated = <<>>
    /\ IdleDecode /\ IdleRename /\ named = NoName /\ IdleContrast

NextDecoder == Iter /\ UNCHANGED <<decodeVars, renameVars, named, contrast>>

SpecDecoder == InitDecoder /\ [][NextDecoder]_vars

InitContrast ==
    /\ contrast \in { [NoRemap EXCEPT !.crop = p] : p \in 0..Uint8Max }
    /\ IdleDecode /\ IdleRename /\ named = NoName /\ IdleDecoder

NextContrast == Remap /\ UNCHANGED <<decodeVars, renameVars, named, decoderVars>>

SpecContrast == InitContrast /\ [][NextContrast]_vars

SpecNaming == InitNaming /\ [][NextNaming]_vars

----------------------------------------------------------------------------
(* decode() with its arguments *)


Init ==
    /\ kind \in Trees
    /\ strategies \in 0..MaxStrategies
    /\ visitors \in 1..MaxVisitors
    /\ stack = << Sorted(TopLevel) >>
    /\ pc = "run"
    /\ visited = <<>>
    /\ firstError = NoError
    /\ events = <<>>
    /\ IdleRename
    /\ named = NoName
    /\ IdleDecoder
    /\ IdleContrast

NextDecode ==
    \/ ReadRaises
    \/ NotAnImage
    \/ ReadBarcodes
    \/ Descend
    \/ DescendRaises
    \/ Return
    \/ Finish

Next == NextDecode /\ UNCHANGED <<renameVars, named, decoderVars, contrast>>

Spec == Init /\ [][Next]_vars

----------------------------------------------------------------------------
(* Properties of decode() *)

Range(f) == { f[n] : n \in DOMAIN f }

IsRead(e) == e.kind = "read"
IsStrategy(e) == e.kind = "strategy"
IsVisitor(e) == e.kind = "visitor"

ReadEvents == SelectSeq(events, IsRead)
StrategyEvents == SelectSeq(events, IsStrategy)
VisitorEvents == SelectSeq(events, IsVisitor)

\* The files of the tree, and the file processed last.
Files == { q \in DOMAIN kind : kind[q] = "file" }
LastFile == visited[Len(visited)]

LoadOrStrategyRaised(ev) ==
    \E n \in 1..Len(ev) : ev[n].raised /\ ev[n].kind \in {"read", "strategy"}

\* C1 (1): in the step that processes a file f in which read_image or a
\* strategy raises, no visitor is called for f, no exception leaves
\* decode(), and the loop stands at the path that follows f.
C1_ErrorStep ==
    (visited' # visited /\ LoadOrStrategyRaised(events'))
        => /\ \A n \in 1..Len(events') : events'[n].kind # "visitor"
           /\ pc' = "run"
           /\ stack' = <<Tail(Head(stack))>> \o Tail(stack)

\* C1: failure isolation.  If read_image or a strategy raises while file f
\* is processed, no visitor's result() is called for f, the error does not
\* leave decode() and the traversal goes on with the path after f (1); and
\* when decode() returns, every file of the tree has been processed,
\* whichever of them failed (2).
C1_FailureIsolation ==
    /\ [][C1_ErrorStep]_vars
    /\ [](pc = "done" => Range(visited) = Files)

\* Witness of C1: decode() has returned; a file failed in read_image or in
\* a strategy, and the file processed after it reached the visitors.
C1_Witness ==
    /\ pc = "done"
    /\ firstError.by \in {"read", "strategy"}
    /\ firstError.path # LastFile
    /\ VisitorEvents # <<>>
    /\ \A n \in 1..Len(events) : ~events[n].raised

\* C2: traversal order.  The files are processed, and so handed to the
\* visitors, in ascending path order (the depth-first traversal that visits
\* the entries of each level in sorted order): the files processed so far
\* are in ascending order, no file left is smaller than a processed one,
\* every call is for the file being processed, and when decode() returns
\* every file has been processed.  The sequence is a function of the tree.
C2_TraversalOrder ==
    /\ \A i, j \in 1..Len(visited) : i < j => PathLess(visited[i], visited[j])
    /\ \A f \in Files \ Range(visited) : \A i \in 1..Len(visited) : PathLess(visited[i], f)
    /\ \A n \in 1..Len(events) : events[n].path = LastFile
    /\ pc = "done" => Range(visited) = Files

\* Witness of C2: decode() has returned after processing a file inside a
\* directory and then a file that sorts after that directory.
C2_Witness ==
    /\ pc = "done"
    /\ \E i \in 1..Len(visited) : i < Len(visited) /\ Len(visited[i]) > Len(visited[i + 1])

\* C3: fan-out.  For every file processed without an error, every visitor
\* of the list gets exactly one result(path, outcome) call, in list order,
\* all with the file's path and the same outcome, also when the outcome has
\* no barcodes.  (In every case the visitors called are an initial part of
\* the list, each called once, after the last strategy call.)
C3_FanOut ==
    /\ \A k \in 1..Len(VisitorEvents) :
          /\ VisitorEvents[k].idx = k
          /\ VisitorEvents[k].path = LastFile
          /\ VisitorEvents[k].val = VisitorEvents[1].val
    /\ Len(VisitorEvents) <= visitors
    /\ \A m, n \in 1..Len(events) :
          (events[m].kind = "visitor" /\ events[n].kind # "visitor") => n < m
    /\ (events # <<>> /\ \A n \in 1..Len(events) : ~events[n].raised)
          => Len(VisitorEvents) = visitors

\* Witness of C3: a file with an outcome without barcodes has been handed
\* to two visitors.
C3_Witness ==
    /\ visitors = 2
    /\ Len(VisitorEvents) = 2
    /\ \A n \in 1..Len(events) : ~events[n].raised
    /\ VisitorEvents[2].val.items[2] = <<>>

\* C4: strategy chain short-circuit.  Strategies are called only for a file
\* whose image loaded, in list order from the first one; once a strategy
\* returns a true value no later strategy is called for the file, and that
\* value is the outcome every visitor call carries.
C4_ShortCircuit ==
    /\ StrategyEvents # <<>> =>
          /\ Len(ReadEvents) = 1
          /\ ~ReadEvents[1].raised /\ ~ReadEvents[1].val.isNone
    /\ \A i \in 1..Len(StrategyEvents) : StrategyEvents[i].idx = i
    /\ \A i \in 1..Len(StrategyEvents) :
          (~StrategyEvents[i].raised /\ Truthy(StrategyEvents[i].val))
              => /\ i = Len(StrategyEvents)
                 /\ \A k \in 1..Len(VisitorEvents) :
                       VisitorEvents[k].val = StrategyEvents[i].val

\* Witness of C4: the first of two strategies returned a true value, which
\* the visitors have received; the second strategy was not called.
C4_Witness ==
    /\ strategies = 2
    /\ Len(StrategyEvents) = 1
    /\ Truthy(StrategyEvents[1].val)
    /\ VisitorEvents # <<>>
    /\ VisitorEvents[1].val = StrategyEvents[1].val

\* The outcome (strategy name = none, barcodes = empty).
C5_NoneEmpty == [isNone |-> FALSE, items |-> <<"None", <<>>>>]

\* C5: empty outcome.  A file for which read_image returns no image is
\* forwarded with the outcome (none, empty) and no strategy is called for
\* it; a file for which every strategy of the list (an empty list included)
\* returns a false value is forwarded with the outcome (none, empty).  It
\* goes to every visitor (up to one that raises).
C5_EmptyOutcome ==
    LET noImage == /\ Len(ReadEvents) = 1
                   /\ ~ReadEvents[1].raised /\ ReadEvents[1].val.isNone
        allFalsy == /\ Len(ReadEvents) = 1
                    /\ ~ReadEvents[1].raised /\ ~ReadEvents[1].val.isNone
                    /\ Len(StrategyEvents) = strategies
                    /\ \A i \in 1..Len(StrategyEvents) :
                          ~StrategyEvents[i].raised /\ ~Truthy(StrategyEvents[i].val)
    IN  /\ noImage => StrategyEvents = <<>>
        /\ (noImage \/ allFalsy) =>
              /\ \A k \in 1..Len(VisitorEvents) : VisitorEvents[k].val = C5_NoneEmpty
              /\ \/ Len(VisitorEvents) = visitors
                 \/ Len(VisitorEvents) > 0 /\ VisitorEvents[Len(VisitorEvents)].raised

\* Witness of C5: both strategies of the list returned a false value and
\* the visitors received (none, empty).
C5_Witness ==
    /\ strategies = 2
    /\ Len(StrategyEvents) = 2
    /\ \A i \in 1..2 : ~StrategyEvents[i].raised /\ ~Truthy(StrategyEvents[i].val)
    /\ Len(VisitorEvents) = visitors
    /\ VisitorEvents[1].val = C5_NoneEmpty

\* C9: directory anomalies are not fatal.  An error raised while a
\* directory is listed is handled like a per-file error: no exception
\* leaves decode().
C9_DirectoryErrorNotFatal == pc # "raised"

\* C17: an outcome with an empty barcode sequence never stops the strategy
\* chain.  A strategy that returns a value that is not None and whose
\* barcodes are empty is followed by the next strategy of the list; and
\* when no strategy returned barcodes, the outcome the visitors receive is
\* that of no strategy (strategy name = none).
C17_EmptyBarcodesFalsy ==
    /\ \A i \in 1..Len(StrategyEvents) :
          ( /\ ~StrategyEvents[i].raised
            /\ ~StrategyEvents[i].val.isNone
            /\ StrategyEvents[i].val.items[2] = <<>>
            /\ i < strategies )
              => Len(StrategyEvents) > i
    /\ \A k \in 1..Len(VisitorEvents) :
          ( \A i \in 1..Len(StrategyEvents) :
                \/ StrategyEvents[i].raised
                \/ StrategyEvents[i].val.isNone
                \/ StrategyEvents[i].val.items[2] = <<>> )
              => \A i \in 1..Len(StrategyEvents) :
                    \/ StrategyEvents[i].val.isNone
                    \/ VisitorEvents[k].val # StrategyEvents[i].val

\* The visitor call that raised is the last call for the file.
C20_RaisedLast(ev) ==
    \A n \in 1..Len(ev) :
        (ev[n].kind = "visitor" /\ ev[n].raised) => n = Len(ev)

\* The visitors 1..k have been called, in this order, each once.
C20_CalledUpTo(ev, k) ==
    LET vs == SelectSeq(ev, IsVisitor)
    IN  Len(vs) = k /\ \A j \in 1..k : vs[j].idx = j /\ vs[j].val = vs[1].val

\* C20 (1): in the step that processes a file for which visitor k raises,
\* the visitors before k have been called with the outcome, no visitor
\* after k is called, no exception leaves decode(), and the loop stands at
\* the path that follows the file.
C20_SinkErrorStep ==
    \A n \in 1..Len(events') :
        (visited' # visited /\ events'[n].kind = "visitor" /\ events'[n].raised)
            => /\ C20_RaisedLast(events')
               /\ C20_CalledUpTo(events', events'[n].idx)
               /\ pc' = "run"
               /\ stack' = <<Tail(Head(stack))>> \o Tail(stack)

\* C20: an exception raised by a visitor's result() is caught like any
\* other error of the file (1), and when decode() returns every file of
\* the tree has been processed, also those after a file for which a
\* visitor raised (2).
C20_SinkException ==
    /\ [][C20_SinkErrorStep]_vars
    /\ [](pc = "done" =>
             /\ Range(visited) = Files
             /\ firstError.by = "visitor" => firstError.path \in Range(visited))

\* Witness of C20: decode() has returned; a visitor raised for one file,
\* and the file processed after it reached every visitor.
C20_Witness ==
    /\ pc = "done"
    /\ visitors = 2
    /\ firstError.by = "visitor"
    /\ firstError.path # LastFile
    /\ Len(VisitorEvents) = 2
    /\ \A n \in 1..Len(events) : ~events[n].raised

----------------------------------------------------------------------------
(* Properties of RenameVisitor *)

\* The i-th name of the collision law: value<ext>, then value-1<ext>, ...
NumberedName(value, ext, i) ==
    IF i = 1 THEN value \o ext
    ELSE value \o <<45>> \o Digits(i - 1) \o ext

RunAsExpected ==
    \A i \in 1..Len(run.dests) : run.dests[i] = NumberedName(run.value, run.ext, i)

\* C6: with collision avoidance enabled and no file named X<ext>
\* or X-<n><ext> on disk beforehand, k files of one directory whose single
\* barcode sanitizes to X, processed in sequence, get the destinations
\* X<ext>, X-1<ext>, ..., X-(k-1)<ext> in that order.
C6_CollisionLaw ==
    (avoid_collisions /\ run # NoRun /\ run.clean) => RunAsExpected

\* Witness of C6: two files with the barcode "X" have been processed in
\* sequence and got X.j and X-1.j.
C6_Witness ==
    /\ avoid_collisions /\ run.clean
    /\ run.dests = << <<88, 46, 106>>, <<88, 45, 49, 46, 106>> >>

LastCandidate(i) ==
    <<last.path[1], last.values[i] \o NameSuffix(last.path[2])>>

C7_Case ==
    /\ last # NoCall /\ ~last.raised
    /\ Len(last.values) >= 2
    /\ \A i, j \in 1..Len(last.values) : i # j => last.values[i] # last.values[j]
    /\ \A i \in 1..Len(last.values) : LastCandidate(i) \notin DOMAIN last.files

\* C7: multi-barcode rename.  After result() for a file with N >= 2
\* barcodes whose sanitized values are distinct and none of whose
\* destinations existed, the source is at <value1><ext> (moved by the first
\* operation), a copy of it made from there is at <value_i><ext> for each
\* i >= 2, no file is at the original path, and every other file is as it
\* was.
C7_MultiBarcode ==
    C7_Case =>
        /\ last.path \notin DOMAIN fs
        /\ \A i \in 1..Len(last.values) :
              /\ LastCandidate(i) \in DOMAIN fs
              /\ fs[LastCandidate(i)] = last.files[last.path]
        /\ Len(last.ops) = Len(last.values)
        /\ last.ops[1].op = "rename"
        /\ \A i \in 2..Len(last.ops) :
              last.ops[i].op = "copy" /\ last.ops[i].source = LastCandidate(1)
        /\ DOMAIN fs = (DOMAIN last.files \ {last.path})
                          \cup { LastCandidate(i) : i \in 1..Len(last.values) }
        /\ \A q \in DOMAIN last.files \ {last.path} : fs[q] = last.files[q]

\* Witness of C7: a file with the barcodes "X" and "@" has been processed;
\* X<ext> and _<ext> hold its content.
C7_Witness ==
    /\ C7_Case
    /\ last.values = << <<88>>, <<95>> >>
    /\ fs[LastCandidate(1)] = fs[LastCandidate(2)]

\* The files before the i-th operation of the last call.
FilesBefore(i) == IF i = 1 THEN last.files ELSE last.ops[i - 1].files

\* C8: no overwrite.  Every rename or copy of result() targets a path at
\* which no file exists at that moment; with collision avoidance disabled a
\* value whose destination exists is skipped and the files are left as
\* they are for it; so every file that was on disk is still there with its
\* content, except the processed file when it is moved, whose content is
\* then at the destination.
C8_NoOverwrite ==
    /\ \A i \in 1..Len(last.ops) :
          LET o == last.ops[i]
              b == FilesBefore(i)
          IN  /\ o.op \in {"rename", "copy"} => o.dest \notin DOMAIN b
              /\ o.op \in {"exists", "already"} => o.files = b
              /\ (~avoid_collisions /\ o.candidate \in DOMAIN b)
                    => (o.op \in {"exists", "already"} /\ o.files = b)
              /\ \A q \in DOMAIN b :
                    (q # last.path \/ o.op # "rename")
                        => (q \in DOMAIN o.files /\ o.files[q] = b[q])
              /\ o.op = "rename" => (o.dest \in DOMAIN o.files /\ o.files[o.dest] = b[last.path])
    /\ last # NoCall =>
          fs = IF last.ops = <<>> THEN last.files ELSE last.ops[Len(last.ops)].files

\* Witness of C8: without collision avoidance, the destination of a value
\* was another file, which is still there with its content.
C8_Witness ==
    /\ ~avoid_collisions
    /\ \E i \in 1..Len(last.ops) :
          /\ last.ops[i].op = "exists"
          /\ last.ops[i].dest \in DOMAIN fs
          /\ fs[last.ops[i].dest] # last.files[last.path]
          /\ fs[last.ops[i].dest] = last.files[last.ops[i].dest]

\* The characters [A-Za-z0-9_-].
C10_Kept(c) ==
    \/ c \in 65..90 \/ c \in 97..122 \/ c \in 48..57 \/ c = 95 \/ c = 45

\* C10: sanitization and destination naming.  Each character of a payload
\* outside [A-Za-z0-9_-] is replaced by one '_' and every other character
\* is kept, so the length is preserved and "He@llo!" becomes "He_llo_"; the
\* candidate destination is named <sanitized value><source extension> and
\* is in the directory of the source file (pathlib accepts no empty name).
C10_Sanitization ==
    (named # NoName /\ named.ok) =>
        /\ Len(named.value) = Len(named.text)
        /\ \A i \in 1..Len(named.text) :
              named.value[i] = IF C10_Kept(named.text[i]) THEN named.text[i] ELSE 95
        /\ named.data = HeAtLloBang => named.value = <<72, 101, 95, 108, 108, 111, 95>>
        /\ named.name = named.value \o NameSuffix(named.path[2])
        /\ named.name # <<>> =>
              /\ ~named.raised
              /\ named.candidate = <<named.path[1], named.name>>

\* Witness of C10: "He@llo!" for the source a.j in directory 1 gives
\* He_llo_.j in directory 1.
C10_Witness ==
    /\ named.data = HeAtLloBang
    /\ named.path = <<1, <<97, 46, 106>>>>
    /\ named.candidate = <<1, <<72, 101, 95, 108, 108, 111, 95, 46, 106>>>>

\* C13: zero-barcode files are untouched.  After a call of result() with
\* an empty barcode sequence, the files on disk and self.suffix are what
\* they were before the call.
C13_ZeroBarcodesUntouched ==
    (last # NoCall /\ last.n = 0) =>
        /\ fs = last.files
        /\ suffix = last.suffix
        /\ last.ops = <<>>

\* Witness of C13: after a call that drew a suffix, a file without barcodes
\* has been processed.
C13_Witness ==
    /\ last # NoCall /\ last.n = 0 /\ ~last.raised
    /\ last.path \in DOMAIN fs
    /\ last.suffix # NoSuffix

\* C14: copy source.  Every file created for a second or later barcode
\* value of a file holds the content of the processed file, also when the
\* operation for the first value was skipped because its destination
\* existed.
C14_CopySource ==
    \A i \in 2..Len(last.ops) :
        last.ops[i].op = "copy"
            => last.ops[i].files[last.ops[i].dest] = last.files[last.path]

\* C15: already correctly named.  When result() processes a file whose
\* name is <first value><extension>, no rename occurs and the file stays
\* at its path, with and without collision avoidance.
C15_AlreadyCorrectlyNamed ==
    (last # NoCall /\ last.n >= 1 /\ ~last.raised /\ LastCandidate(1) = last.path) =>
        /\ last.ops[1].op = "already"
        /\ last.ops[1].files = last.files
        /\ last.path \in DOMAIN fs
        /\ fs[last.path] = last.files[last.path]

\* C16: suffix counter invariant.  For each file name the integers drawn
\* from its counter are 1, 2, 3, ... in this order, none twice; and with
\* collision avoidance the path _destination returns is not a file at that
\* moment.
C16_SuffixCounter ==
    /\ \A name \in DOMAIN draws :
          /\ \A k \in 1..Len(draws[name]) : draws[name][k] = k
          /\ name \in DOMAIN suffix => suffix[name] = Len(draws[name]) + 1
    /\ \A name \in DOMAIN suffix : name \in DOMAIN draws
    /\ avoid_collisions =>
          \A i \in 1..Len(last.ops) : last.ops[i].dest \notin DOMAIN FilesBefore(i)

\* Witness of C16: two integers have been drawn for one name.
C16_Witness ==
    /\ avoid_collisions
    /\ \E name \in DOMAIN draws : draws[name] = <<1, 2>>

----------------------------------------------------------------------------
(* Properties of the region decoder *)

\* C11: memoization.  Every iteration of a Decoder returns the sequence of
\* the first iteration, and the engine is invoked during the first
\* iteration only, also when the first computation produced an empty
\* sequence.
C11_Memoization ==
    \A i \in 1..Len(iterated) :
        /\ iterated[i].res = iterated[1].res
        /\ i >= 2 => iterated[i].calls = <<>>
        /\ ~self_barcodes.isNone /\ self_barcodes.items = iterated[1].res
        /\ engine_calls = iterated[1].calls

\* Witness of C11: a Decoder with candidates whose first computation found
\* nothing has been iterated twice.
C11_Witness ==
    /\ Len(iterated) >= 2
    /\ iterated[1].res = <<>>
    /\ iterated[1].calls # <<>>

\* The symbols of the successful attempt for a candidate: those of the first
\* attempt if there are any, else those of the second.
C12_Successful(rect) ==
    IF self_engine[<<rect, Sharpened>>] > 0
    THEN Engine(rect, Sharpened) ELSE Engine(rect, Contrasted)

RECURSIVE C12_Concatenation(_)
C12_Concatenation(n) ==
    IF n = 0 THEN <<>> ELSE C12_Concatenation(n - 1) \o C12_Successful(n)

\* C12: result order.  The barcodes computed are, candidate by candidate in
\* candidate order, the symbols of the successful engine attempt for the
\* candidate in the order the engine returned them (type and data of each);
\* a candidate for which both attempts return nothing contributes nothing.
C12_ResultOrder ==
    ~self_barcodes.isNone =>
        LET expected == C12_Concatenation(self_candidates)
            got == self_barcodes.items
        IN  /\ Len(got) = Len(expected)
            /\ \A j \in 1..Len(got) :
                  got[j].type = expected[j].type /\ got[j].data = expected[j].data

\* Witness of C12: two candidates; the first attempt finds two symbols for
\* the first candidate, and only the second attempt finds one for the other.
C12_Witness ==
    /\ self_candidates = 2
    /\ ~self_barcodes.isNone
    /\ self_engine[<<1, Sharpened>>] = 2
    /\ self_engine[<<2, Sharpened>>] = 0
    /\ self_engine[<<2, Contrasted>>] = 1
    /\ Len(self_barcodes.items) = 3

\* The positions of the engine calls for the crop (rect, attempt).
C18_Calls(rect, attempt) ==
    { k \in 1..Len(engine_calls) : engine_calls[k] = <<rect, attempt>> }

\* C18: two-stage fallback.  For each candidate the engine is invoked once
\* on the sharpened crop, and once more, on the remapped crop and after the
\* first invocation, if and only if the first invocation returned no
\* symbol; candidates are processed in order.
C18_TwoStageFallback ==
    ~self_barcodes.isNone =>
        /\ \A rect \in 1..self_candidates :
              /\ Cardinality(C18_Calls(rect, Sharpened)) = 1
              /\ Cardinality(C18_Calls(rect, Contrasted)) =
                    IF self_engine[<<rect, Sharpened>>] = 0 THEN 1 ELSE 0
        /\ \A k \in 1..Len(engine_calls) : engine_calls[k][1] \in 1..self_candidates
        /\ \A k, l \in 1..Len(engine_calls) :
              k < l => \/ engine_calls[k][1] < engine_calls[l][1]
                       \/ /\ engine_calls[k][1] = engine_calls[l][1]
                          /\ engine_calls[k][2] = Sharpened
                          /\ engine_calls[l][2] = Contrasted

\* Witness of C18: of two candidates, the first needed the second attempt
\* and the other did not.
C18_Witness ==
    /\ self_candidates = 2
    /\ engine_calls = << <<1, Sharpened>>, <<1, Contrasted>>, <<2, Sharpened>> >>

\* C19: contrast remap arithmetic.  A pixel p >= 0x80 becomes
\* min(255, p + 0x10) and a pixel p < 0x80 becomes max(0, p - 0x5a); the
\* pixel is in exactly one of the two masks, and the sum of the two partial
\* images is the value of the partial image it is in.
C19_ContrastArithmetic ==
    contrast.done =>
        LET p == contrast.crop
        IN  /\ p >= 128 => contrast.out = (IF p + 16 > 255 THEN 255 ELSE p + 16)
            /\ p < 128 => contrast.out = (IF p - 90 < 0 THEN 0 ELSE p - 90)
            /\ (contrast.bigmask # 0) # (contrast.smallmask # 0)
            /\ (contrast.bigmask # 0) = (p >= 128)
            /\ contrast.out = IF contrast.bigmask # 0 THEN contrast.big
                              ELSE contrast.small
            /\ contrast.out \in 0..255

\* Witness of C19: a bright pixel has been remapped to the upper boundary.
C19_Witness ==
    contrast.done /\ contrast.crop = 250 /\ contrast.out = 255

====
